---- MODULE Spec2Model ----
(***************************************************************************)
(* A model of TSResultify: the two-variant Result type (Pass / Fail) with  *)
(* its combinators, and the adapters resultify / resultifyPromise.         *)
(*                                                                         *)
(* JavaScript values are records tagged by t; Result instances live in a   *)
(* heap (a sequence of [cls, val] objects) and are referred to by index,   *)
(* so that instance identity and field mutation are visible.  Every        *)
(* library operation is an operator from a machine m = [heap, calls, errs] *)
(* to [m, c]: the machine afterwards and a completion c, which is either   *)
(* a normal return Ret(v) or a raised value Raise(v).                      *)
(*                                                                         *)
(* The definitions follow the later of the two versions of result.ts; the  *)
(* earlier one has the same resultify and resultifyPromise, names andThen  *)
(* and orElse flatMap and flatMapErr, and lacks inspectPass / inspectFail. *)
(***************************************************************************)
EXTENDS Integers, Sequences, FiniteSets, TLC

VARIABLES
    heap,         \* the Result instances: a sequence of [cls, val] objects
    born,         \* the instances the client keeps, as they were constructed
    errs,         \* Error instances the library has created
    last,         \* the last operation: its receiver, callbacks, call log, completion
    promises,     \* resultifyPromise's promise chain: p0, p1, p2 and the returned one
    asyncFn,      \* what asyncFn does in the current resultifyPromise call
    invocations   \* how often the current resultifyPromise call has invoked asyncFn

vars == <<heap, born, errs, last, promises, asyncFn, invocations>>

RECURSIVE JoinParts(_)
RECURSIVE Call(_, _, _)
RECURSIVE Run(_, _, _)
RECURSIVE andThen(_, _, _)

(* ------------------------------ bounds --------------------------------- *)

\* Result instances the client constructs and keeps across operations.
MaxKept == 1
\* Numeric payloads range over 0..MaxNum.
MaxNum == 1
\* resultifyPromise calls made one after the other.
MaxAsyncCalls == 2

(* --------------------------- JavaScript values -------------------------- *)

Num(n) == [t |-> "num", n |-> n]
NaN == [t |-> "nan"]
Str(s) == [t |-> "str", s |-> s]
Sym == [t |-> "sym"]
Undefined == [t |-> "undef"]
Ref(i) == [t |-> "ref", i |-> i]
\* An Error instance: its class name, its message (the parts of the template
\* literal that built it) and its identity.
Err(name, msg, id) == [t |-> "err", name |-> name, msg |-> msg, id |-> id]

\* An Error instance created by the caller, outside the library (identity 0;
\* the library's own errors are numbered from 1).
UserErr == Err("Error", <<"I'm fallible">>, 0)

\* The payloads and thrown values the caller supplies.
Values == {Num(n) : n \in 0..MaxNum} \cup {NaN, Str("boom"), UserErr, Sym}

Ret(v) == [k |-> "ret", v |-> v]
Raise(v) == [k |-> "raise", v |-> v]
Out(m, c) == [m |-> m, c |-> c]

EmptyMachine == [heap |-> <<>>, calls |-> <<>>, errs |-> 0]

JoinParts(parts) ==
    IF parts = <<>> THEN "" ELSE Head(parts) \o JoinParts(Tail(parts))

\* `new X(...)` for a subclass of Error: a fresh instance.
NewError(m, name, msg) ==
    Out([m EXCEPT !.errs = @ + 1], Ret(Err(name, msg, m.errs + 1)))

\* Number.isNaN(v): true for the number NaN only, never for a non-number.
NumberIsNaN(v) == v.t = "nan"

\* v instanceof Error.
InstanceofError(v) == v.t = "err"

\* ToString(v) as a template literal `${v}` applies it. A Symbol has no
\* implicit string conversion: the conversion raises a TypeError.
ToStr(m, v) ==
    CASE v.t = "num" -> Out(m, Ret(ToString(v.n)))
      [] v.t = "nan" -> Out(m, Ret("NaN"))
      [] v.t = "str" -> Out(m, Ret(v.s))
      [] v.t = "undef" -> Out(m, Ret("undefined"))
      [] v.t = "ref" -> Out(m, Ret("[object Object]"))
      [] v.t = "err" ->
            Out(m, Ret(IF v.msg = <<>> THEN v.name
                       ELSE v.name \o ": " \o JoinParts(v.msg)))
      [] v.t = "sym" ->
            LET e == NewError(m, "TypeError",
                              <<"Cannot convert a Symbol value to a string">>)
            IN  Out(e.m, Raise(e.c.v))

\* new UnwrappedFailError(err)
UnwrappedFailError(m, err) ==
    LET s == ToStr(m, err)
    IN  IF s.c.k = "raise" THEN s
        ELSE NewError(s.m, "UnwrappedFailError",
                      <<"Attempted to unwrap Fail with inner error = ", s.c.v, ")">>)

\* new ExpectFailError(val)
ExpectFailError(m, val) ==
    LET s == ToStr(m, val)
    IN  IF s.c.k = "raise" THEN s
        ELSE NewError(s.m, "ExpectFailError",
                      <<"Expected variant Fail, got Pass with inner value = ", s.c.v, ")">>)

\* new NaNError(): super() with no message, then name = "NaNError".
NaNError(m) == NewError(m, "NaNError", <<>>)

\* new ResultifyFailError(value)
ResultifyFailError(m, value) ==
    LET s == ToStr(m, value)
    IN  IF s.c.k = "raise" THEN s
        ELSE NewError(s.m, "ResultifyFailError",
                      <<"Failed resultify threw non-error value: ", s.c.v>>)

(* ----------------------------- Pass and Fail ---------------------------- *)

\* new Pass(value): a fresh instance holding value.
NewPass(m, value) ==
    Out([m EXCEPT !.heap = Append(@, [cls |-> "Pass", val |-> value])],
        Ret(Ref(Len(m.heap) + 1)))

\* new Fail(error): a fresh instance holding error.
NewFail(m, error) ==
    Out([m EXCEPT !.heap = Append(@, [cls |-> "Fail", val |-> error])],
        Ret(Ref(Len(m.heap) + 1)))

\* this.passed(): Pass returns true, Fail returns false.
passed(m, r) == m.heap[r].cls = "Pass"

\* this.failed(): !this.passed()
failed(m, r) == ~passed(m, r)

\* this.unwrap(): Pass returns its value, Fail throws UnwrappedFailError.
unwrap(m, r) ==
    IF m.heap[r].cls = "Pass" THEN Out(m, Ret(m.heap[r].val))
    ELSE LET e == UnwrappedFailError(m, m.heap[r].val)
         IN  Out(e.m, Raise(e.c.v))

\* this.expectFail(): Fail returns its error, Pass throws ExpectFailError.
expectFail(m, r) ==
    IF m.heap[r].cls = "Fail" THEN Out(m, Ret(m.heap[r].val))
    ELSE LET e == ExpectFailError(m, m.heap[r].val)
         IN  Out(e.m, Raise(e.c.v))

\* into() as `return this`: no new instance, the receiver itself.
into_returnsThis(m, r) == Out(m, Ret(Ref(r)))

\* this.into(): a new Pass or Fail with the receiver's payload.
into(m, r) ==
    IF passed(m, r)
    THEN LET a == unwrap(m, r)
         IN  IF a.c.k = "raise" THEN a ELSE NewPass(a.m, a.c.v)
    ELSE LET a == expectFail(m, r)
         IN  IF a.c.k = "raise" THEN a ELSE NewFail(a.m, a.c.v)

(* ------------------------ caller-supplied callbacks ---------------------- *)

\* A callback is [id, fn]: id names the parameter it is passed as (so that the
\* call log tells the callbacks of one operation apart), fn is what it does.
Cb(id, fn) == [id |-> id, fn |-> fn]
\* x => f(x).andThen(g)
Compose(id, f, g) == [id |-> id, fn |-> "compose", f |-> f, g |-> g]

\* (value) => value callbacks, as passed to map, mapErr, match, inspectPass
\* and inspectFail: "boom" throws.
ValueFns == {"id", "konst", "boom"}
\* (value) => Result callbacks, as passed to andThen and orElse.
ResultFns == {"pass", "fail", "failK", "boom"}
\* (result) => void callbacks, as passed to inspect: "poke" assigns the
\* payload field of the Result it is handed (value and error are public,
\* writable fields).
InspectFns == {"noop", "poke", "boom"}

\* Sequencing: a raised completion propagates, a normal one continues.
Then(a, F(_, _)) == IF a.c.k = "raise" THEN a ELSE F(a.m, a.c.v)

\* What the callback cb does with arg on machine m1.
Run(m1, cb, arg) ==
        CASE cb.fn = "id" -> Out(m1, Ret(arg))
          [] cb.fn = "konst" -> Out(m1, Ret(Str("k")))
          [] cb.fn = "boom" -> Out(m1, Raise(UserErr))
          [] cb.fn = "noop" -> Out(m1, Ret(Undefined))
          [] cb.fn = "pass" -> NewPass(m1, arg)
          [] cb.fn = "fail" -> NewFail(m1, arg)
          [] cb.fn = "failK" -> NewFail(m1, Str("k"))
          [] cb.fn = "poke" ->
                Out([m1 EXCEPT !.heap[arg.i].val = Str("poked")], Ret(Undefined))
          [] cb.fn = "compose" ->
                Then(Call(m1, cb.f, arg), LAMBDA m2, v : andThen(m2, v.i, cb.g))

\* The invocation cb(arg). The call log gets an entry when the call starts
\* (the callback, its argument and, for a Result argument, the object as it
\* is handed over) and the entry gets the callback's completion when it ends.
Call(m, cb, arg) ==
    LET at == Len(m.calls) + 1
        entry == [cb |-> cb.id, arg |-> arg,
                  obj |-> IF arg.t = "ref" THEN m.heap[arg.i] ELSE Undefined,
                  res |-> Undefined]
        done == Run([m EXCEPT !.calls = Append(@, entry)], cb, arg)
    IN  Out([done.m EXCEPT !.calls[at].res = done.c], done.c)

(* ------------------------------ combinators ----------------------------- *)

\* map(f) without the variant test: f is applied to the payload of a Fail too.
map_bothSides(m, r, f) ==
    IF passed(m, r)
    THEN Then(unwrap(m, r), LAMBDA m1, v :
         Then(Call(m1, f, v), LAMBDA m2, u : NewPass(m2, u)))
    ELSE Then(expectFail(m, r), LAMBDA m1, e :
         Then(Call(m1, f, e), LAMBDA m2, u : NewFail(m2, u)))

\* map(f): this.passed() ? new Pass(f(this.unwrap())) : new Fail(this.expectFail())
map(m, r, f) ==
    IF passed(m, r)
    THEN Then(unwrap(m, r), LAMBDA m1, v :
         Then(Call(m1, f, v), LAMBDA m2, u : NewPass(m2, u)))
    ELSE Then(expectFail(m, r), LAMBDA m1, e : NewFail(m1, e))

\* mapErr(f): this.failed() ? new Fail(f(this.expectFail())) : new Pass(this.unwrap())
mapErr(m, r, f) ==
    IF failed(m, r)
    THEN Then(expectFail(m, r), LAMBDA m1, e :
         Then(Call(m1, f, e), LAMBDA m2, u : NewFail(m2, u)))
    ELSE Then(unwrap(m, r), LAMBDA m1, v : NewPass(m1, v))

\* andThen(f) written as map: what f returns is wrapped in a new Pass instead
\* of being returned as it is.
andThen_wraps(m, r, f) ==
    IF passed(m, r)
    THEN Then(unwrap(m, r), LAMBDA m1, v :
         Then(Call(m1, f, v), LAMBDA m2, u : NewPass(m2, u)))
    ELSE Then(expectFail(m, r), LAMBDA m1, e : NewFail(m1, e))

\* andThen(f): on Pass whatever f(this.unwrap()) returns, on Fail a new Fail.
andThen(m, r, f) ==
    IF passed(m, r)
    THEN Then(unwrap(m, r), LAMBDA m1, v : Call(m1, f, v))
    ELSE Then(expectFail(m, r), LAMBDA m1, e : NewFail(m1, e))

\* orElse(f): on Fail whatever f(this.expectFail()) returns, on Pass a new Pass.
orElse(m, r, f) ==
    IF failed(m, r)
    THEN Then(expectFail(m, r), LAMBDA m1, e : Call(m1, f, e))
    ELSE Then(unwrap(m, r), LAMBDA m1, v : NewPass(m1, v))

\* nullify(): this.passed() ? this.unwrap() : undefined
nullify(m, r) ==
    IF passed(m, r) THEN unwrap(m, r) ELSE Out(m, Ret(Undefined))

\* inspect(f): let result = this.into(); f(result); return result
inspect(m, r, f) ==
    Then(into(m, r), LAMBDA m1, result :
    Then(Call(m1, f, result), LAMBDA m2, ignored : Out(m2, Ret(result))))

\* inspectPass(f): if (this.passed()) f(this.unwrap()); return this.into()
inspectPass(m, r, f) ==
    IF passed(m, r)
    THEN Then(unwrap(m, r), LAMBDA m1, v :
         Then(Call(m1, f, v), LAMBDA m2, ignored : into(m2, r)))
    ELSE into(m, r)

\* inspectFail(f): if (this.failed()) f(this.expectFail()); return this.into()
inspectFail(m, r, f) ==
    IF failed(m, r)
    THEN Then(expectFail(m, r), LAMBDA m1, e :
         Then(Call(m1, f, e), LAMBDA m2, ignored : into(m2, r)))
    ELSE into(m, r)

\* match(onPass, onFail) with the branches the wrong way round.
match_swapped(m, r, onPass, onFail) ==
    IF passed(m, r)
    THEN Then(unwrap(m, r), LAMBDA m1, v : Call(m1, onFail, v))
    ELSE Then(expectFail(m, r), LAMBDA m1, e : Call(m1, onPass, e))

\* match(onPass, onFail): onPass(this.unwrap()) on Pass, onFail(this.expectFail())
\* on Fail.
match(m, r, onPass, onFail) ==
    IF passed(m, r)
    THEN Then(unwrap(m, r), LAMBDA m1, v : Call(m1, onPass, v))
    ELSE Then(expectFail(m, r), LAMBDA m1, e : Call(m1, onFail, e))

(* ------------------------------- resultify ------------------------------ *)

\* What the adapted function does when called: it returns v or throws v.
Returns(v) == [k |-> "return", v |-> v]
Throws(v) == [k |-> "throw", v |-> v]
Behaviours == {Returns(v) : v \in Values} \cup {Throws(v) : v \in Values}

\* f(...args): the call is logged and completes as f behaves.
Invoke(m, f) ==
    Out([m EXCEPT !.calls = Append(@, [cb |-> "f", arg |-> Undefined, obj |-> Undefined,
                                       res |-> Undefined])],
        IF f.k = "return" THEN Ret(f.v) ELSE Raise(f.v))

\* The catch block of resultify: an Error is passed on, anything else is
\* wrapped. The block is not itself guarded: what it raises escapes.
resultifyCatch(m, err) ==
    IF InstanceofError(err) THEN NewFail(m, err)
    ELSE Then(ResultifyFailError(m, err), LAMBDA m1, e : NewFail(m1, e))

\* resultify(f, ...args)
resultify(m, f) ==
    LET tried == Then(Invoke(m, f), LAMBDA m1, result :
                     IF NumberIsNaN(result)
                     THEN LET e == NaNError(m1) IN Out(e.m, Raise(e.c.v))
                     ELSE NewPass(m1, result))
    IN  IF tried.c.k = "raise" THEN resultifyCatch(tried.m, tried.c.v) ELSE tried

(* ------------------- the client of the Result type ---------------------- *)

NoPromise == [st |-> "none", v |-> Undefined]
Idle == [p0 |-> NoPromise, p1 |-> NoPromise, p2 |-> NoPromise, ret |-> NoPromise]

Init ==
    /\ heap = <<>>
    /\ born = <<>>
    /\ errs = 0
    /\ last = [op |-> "none"]
    /\ promises = Idle
    /\ asyncFn = [k |-> "none", v |-> Undefined, call |-> 0]
    /\ invocations = 0

\* The machine an operation starts on: the instances the client kept (the
\* results of the operation before are dropped), an empty call log.
Start == [heap |-> SubSeq(heap, 1, Len(born)), calls |-> <<>>, errs |-> 0]

Receivers == 1..Len(born)

asyncVars == <<promises, asyncFn, invocations>>

\* The operation op on receiver r with callbacks f and g has ended as `out`.
Ended(op, r, f, g, out) ==
    /\ heap' = out.m.heap
    /\ errs' = out.m.errs
    /\ last' = [op |-> op, recv |-> r, f |-> f, g |-> g,
                c |-> out.c, calls |-> out.m.calls]
    /\ UNCHANGED <<born, asyncVars>>

\* const r = new Pass(v) / new Fail(v), kept by the client.
Construct(cls, v) ==
    /\ Len(born) < MaxKept
    /\ LET out == IF cls = "Pass" THEN NewPass(Start, v) ELSE NewFail(Start, v)
       IN  /\ heap' = out.m.heap
           /\ born' = Append(born, out.m.heap[out.c.v.i])
           /\ errs' = out.m.errs
           /\ last' = [op |-> "new", recv |-> out.c.v.i, f |-> "", g |-> "",
                       c |-> out.c, calls |-> out.m.calls]
    /\ UNCHANGED asyncVars

DoUnwrap(r) == Ended("unwrap", r, "", "", unwrap(Start, r))

DoExpectFail(r) == Ended("expectFail", r, "", "", expectFail(Start, r))

DoMap(r, f) == Ended("map", r, f, "", map(Start, r, Cb("f", f)))

DoMapErr(r, f) == Ended("mapErr", r, f, "", mapErr(Start, r, Cb("f", f)))

DoAndThen(r, f) == Ended("andThen", r, f, "", andThen(Start, r, Cb("f", f)))

DoOrElse(r, f) == Ended("orElse", r, f, "", orElse(Start, r, Cb("f", f)))

DoNullify(r) == Ended("nullify", r, "", "", nullify(Start, r))

DoInspect(r, f) == Ended("inspect", r, f, "", inspect(Start, r, Cb("f", f)))

DoInspectPass(r, f) ==
    Ended("inspectPass", r, f, "", inspectPass(Start, r, Cb("f", f)))

DoInspectFail(r, f) ==
    Ended("inspectFail", r, f, "", inspectFail(Start, r, Cb("f", f)))

DoMatch(r, f, g) ==
    Ended("match", r, f, g, match(Start, r, Cb("onPass", f), Cb("onFail", g)))

\* a.andThen(f).andThen(g)
ChainLeft(m, a, f, g) ==
    Then(andThen(m, a, Cb("f", f)), LAMBDA m1, v : andThen(m1, v.i, Cb("g", g)))

\* a.andThen(x => f(x).andThen(g))
ChainRight(m, a, f, g) ==
    andThen(m, a, Compose("fg", Cb("f", f), Cb("g", g)))

\* Both forms of a chain of two steps, one after the other on the same receiver.
DoChain(r, f, g) ==
    LET left == ChainLeft(Start, r, f, g)
        right == ChainRight([left.m EXCEPT !.calls = <<>>], r, f, g)
    IN  /\ heap' = right.m.heap
        /\ errs' = right.m.errs
        /\ last' = [op |-> "chain", recv |-> r, f |-> f, g |-> g,
                    c |-> left.c, calls |-> left.m.calls,
                    c2 |-> right.c, calls2 |-> right.m.calls]
        /\ UNCHANGED <<born, asyncVars>>

\* resultify(f) for a function that behaves as b.
DoResultify(b) ==
    LET out == resultify(Start, b)
    IN  /\ heap' = out.m.heap
        /\ errs' = out.m.errs
        /\ last' = [op |-> "resultify", recv |-> 0, f |-> b, g |-> "",
                    c |-> out.c, calls |-> out.m.calls]
        /\ UNCHANGED <<born, asyncVars>>

Next ==
    \/ \E cls \in {"Pass", "Fail"}, v \in Values : Construct(cls, v)
    \/ \E r \in Receivers : DoUnwrap(r)
    \/ \E r \in Receivers : DoExpectFail(r)
    \/ \E r \in Receivers, f \in ValueFns : DoMap(r, f)
    \/ \E r \in Receivers, f \in ValueFns : DoMapErr(r, f)
    \/ \E r \in Receivers, f \in ResultFns : DoAndThen(r, f)
    \/ \E r \in Receivers, f \in ResultFns : DoOrElse(r, f)
    \/ \E r \in Receivers : DoNullify(r)
    \/ \E r \in Receivers, f \in InspectFns : DoInspect(r, f)
    \/ \E r \in Receivers, f \in ValueFns : DoInspectPass(r, f)
    \/ \E r \in Receivers, f \in ValueFns : DoInspectFail(r, f)
    \/ \E r \in Receivers, f \in ValueFns, g \in ValueFns : DoMatch(r, f, g)
    \/ \E r \in Receivers, f \in ResultFns, g \in ResultFns : DoChain(r, f, g)
    \/ \E b \in Behaviours : DoResultify(b)

Spec == Init /\ [][Next]_vars

(* ---------------------------- resultifyPromise --------------------------- *)

\* What asyncFn does when called: it throws v before it returns a promise, or
\* it returns a promise that resolves with v, rejects with v, or never settles.
AsyncBehaviours ==
    {[k |-> k, v |-> v] : k \in {"throw", "resolve", "reject"}, v \in Values}
        \cup {[k |-> "hang", v |-> Undefined]}

Pending == [st |-> "pending", v |-> Undefined]
Fulfilled(v) == [st |-> "fulfilled", v |-> v]
Rejected(v) == [st |-> "rejected", v |-> v]
Settled(p) == p.st \in {"fulfilled", "rejected"}

\* A promise derived by then/catch settles as its handler completes: with the
\* value the handler returns, or rejected with the value it throws.
SettleAs(c) == IF c.k = "ret" THEN Fulfilled(c.v) ELSE Rejected(c.v)

\* .then((value) => { if (resultify(() => value).failed()) throw value;
\*                    else return new Pass(value); })
thenHandler(m, value) ==
    Then(resultify(m, Returns(value)), LAMBDA m1, res :
         IF failed(m1, res.i) THEN Out(m1, Raise(value)) ELSE NewPass(m1, value))

\* .catch((err) => resultify(() => { throw err; }))
catchHandler(m, err) == resultify(m, Throws(err))

\* The body of the async function up to its return: asyncFn(...args) is
\* called once; if it throws, the async function's promise is rejected with
\* what it threw, else the chain p0.then(..).catch(..) is built and returned.
resultifyPromise(b) ==
    IF b.k = "throw"
    THEN [Idle EXCEPT !.ret = Rejected(b.v)]
    ELSE [p0 |-> Pending, p1 |-> Pending, p2 |-> Pending, ret |-> Pending]

\* await resultifyPromise(asyncFn, ...args), once the call before has ended.
CallResultifyPromise(b) ==
    /\ promises.ret.st # "pending"
    /\ asyncFn.call < MaxAsyncCalls
    /\ asyncFn' = [k |-> b.k, v |-> b.v, call |-> asyncFn.call + 1]
    /\ invocations' = 1
    /\ promises' = resultifyPromise(b)
    /\ heap' = <<>>
    /\ errs' = 0
    /\ UNCHANGED <<born, last>>

\* The asynchronous operation settles (one that hangs never does).
SettleUnderlying ==
    /\ promises.p0.st = "pending"
    /\ asyncFn.k \in {"resolve", "reject"}
    /\ promises' = [promises EXCEPT !.p0 = IF asyncFn.k = "resolve"
                                           THEN Fulfilled(asyncFn.v)
                                           ELSE Rejected(asyncFn.v)]
    /\ UNCHANGED <<heap, born, errs, last, asyncFn, invocations>>

\* The reaction of p1 = p0.then(handler): the handler runs on a fulfilment, a
\* rejection passes through.
ThenReaction ==
    /\ Settled(promises.p0)
    /\ promises.p1.st = "pending"
    /\ IF promises.p0.st = "fulfilled"
       THEN LET out == thenHandler([heap |-> heap, calls |-> <<>>, errs |-> errs],
                                   promises.p0.v)
            IN  /\ promises' = [promises EXCEPT !.p1 = SettleAs(out.c)]
                /\ heap' = out.m.heap
                /\ errs' = out.m.errs
       ELSE /\ promises' = [promises EXCEPT !.p1 = promises.p0]
            /\ UNCHANGED <<heap, errs>>
    /\ UNCHANGED <<born, last, asyncFn, invocations>>

\* The reaction of p2 = p1.catch(handler): the handler runs on a rejection, a
\* fulfilment passes through.
CatchReaction ==
    /\ Settled(promises.p1)
    /\ promises.p2.st = "pending"
    /\ IF promises.p1.st = "rejected"
       THEN LET out == catchHandler([heap |-> heap, calls |-> <<>>, errs |-> errs],
                                    promises.p1.v)
            IN  /\ promises' = [promises EXCEPT !.p2 = SettleAs(out.c)]
                /\ heap' = out.m.heap
                /\ errs' = out.m.errs
       ELSE /\ promises' = [promises EXCEPT !.p2 = promises.p1]
            /\ UNCHANGED <<heap, errs>>
    /\ UNCHANGED <<born, last, asyncFn, invocations>>

\* The promise the async function returned settles as p2, which it returned.
ReturnSettles ==
    /\ Settled(promises.p2)
    /\ promises.ret.st = "pending"
    /\ promises' = [promises EXCEPT !.ret = promises.p2]
    /\ UNCHANGED <<heap, born, errs, last, asyncFn, invocations>>

AsyncNext ==
    \/ \E b \in AsyncBehaviours : CallResultifyPromise(b)
    \/ SettleUnderlying
    \/ ThenReaction
    \/ CatchReaction
    \/ ReturnSettles

AsyncSpec == Init /\ [][AsyncNext]_vars

\* The reactions of a settled promise are jobs of the microtask queue, which
\* the event loop runs to the end: a reaction that can run does run. Nothing
\* makes the asynchronous operation itself settle, or the caller call again.
AsyncFairSpec ==
    /\ AsyncSpec
    /\ WF_vars(ThenReaction)
    /\ WF_vars(CatchReaction)
    /\ WF_vars(ReturnSettles)

(* ------------------------------- the claims ----------------------------- *)

Range(seq) == {seq[i] : i \in DOMAIN seq}

\* How often the callback passed as `id` was invoked, by a call log.
Count(calls, id) == Cardinality({i \in DOMAIN calls : calls[i].cb = id})

\* The machine of the current state, for the predicates on instances.
Now == [heap |-> heap, calls |-> <<>>, errs |-> errs]

\* c returns a Result instance of class cls.
ReturnsA(c, cls) ==
    /\ c.k = "ret"
    /\ c.v.t = "ref"
    /\ c.v.i \in DOMAIN heap
    /\ heap[c.v.i].cls = cls

\* The value v is an Error instance of the class `name`.
IsErrorNamed(v, name) == v.t = "err" /\ v.name = name

\* The message of the Error instance e contains the string rendering of x
\* (and x has one).
MessageRenders(e, x) ==
    LET s == ToStr(EmptyMachine, x).c
    IN  s.k = "ret" /\ s.v \in Range(e.msg)

\* C1: when the promise asyncFn returned resolves with NaN, the promise
\* resultifyPromise returned resolves to a Fail whose payload is a NaNError.
C1_NaNResolutionIsNaNError ==
    (asyncFn.k = "resolve" /\ asyncFn.v = NaN /\ Settled(promises.ret))
        => /\ promises.ret.st = "fulfilled"
           /\ ReturnsA(Ret(promises.ret.v), "Fail")
           /\ IsErrorNamed(heap[promises.ret.v.i].val, "NaNError")

\* C2: the adapters are total: resultify never raises, and the promise
\* resultifyPromise returned never rejects, whatever the function does
\* (asyncFn throwing before it returns a promise included).
C2_AdaptersTotal ==
    /\ last.op = "resultify" => last.c.k = "ret"
    /\ promises.ret.st # "rejected"

\* C3: resultify(f) gives Pass(v) when f returns a v that is not NaN,
\* Fail(NaNError) when f returns NaN, Fail(e) with the very same e when f
\* throws an Error e, and Fail(ResultifyFailError) whose message contains the
\* rendering of x when f throws a non-Error x.
C3_ResultifyClassifies ==
    last.op = "resultify" =>
        LET b == last.f
            c == last.c
        IN  /\ Count(last.calls, "f") = 1
            /\ (b.k = "return" /\ ~NumberIsNaN(b.v)) =>
                    ReturnsA(c, "Pass") /\ heap[c.v.i].val = b.v
            /\ (b.k = "return" /\ NumberIsNaN(b.v)) =>
                    ReturnsA(c, "Fail") /\ IsErrorNamed(heap[c.v.i].val, "NaNError")
            /\ (b.k = "throw" /\ InstanceofError(b.v)) =>
                    ReturnsA(c, "Fail") /\ heap[c.v.i].val = b.v
            /\ (b.k = "throw" /\ ~InstanceofError(b.v)) =>
                    /\ ReturnsA(c, "Fail")
                    /\ IsErrorNamed(heap[c.v.i].val, "ResultifyFailError")
                    /\ MessageRenders(heap[c.v.i].val, b.v)

\* The Result instance c returns has the variant and the payload of obj.
ReturnsLike(c, obj) == ReturnsA(c, obj.cls) /\ heap[c.v.i].val = obj.val

\* C4: resultifyPromise settles as resultify classifies the corresponding
\* synchronous behaviour: a rejection with r resolves to the Fail that
\* resultify gives for a function throwing r (an Error passed through with its
\* identity, a non-Error wrapped in a ResultifyFailError whose message
\* contains r), a resolution with a v that is not NaN resolves to Pass(v).
C4_AdaptersConverge ==
    Settled(promises.ret) =>
        LET r == asyncFn.v
            c == Ret(promises.ret.v)
        IN  /\ asyncFn.k = "reject" =>
                /\ promises.ret.st = "fulfilled"
                /\ ReturnsA(c, "Fail")
                /\ InstanceofError(r) => heap[c.v.i].val = r
                /\ ~InstanceofError(r) =>
                        /\ IsErrorNamed(heap[c.v.i].val, "ResultifyFailError")
                        /\ MessageRenders(heap[c.v.i].val, r)
                /\ LET sync == resultify(EmptyMachine, Throws(r))
                   IN  /\ sync.c.k = "ret"
                       /\ sync.m.heap[sync.c.v.i].cls = heap[c.v.i].cls
                       /\ sync.m.heap[sync.c.v.i].val.name = heap[c.v.i].val.name
                       /\ sync.m.heap[sync.c.v.i].val.msg = heap[c.v.i].val.msg
            /\ (asyncFn.k = "resolve" /\ ~NumberIsNaN(r)) =>
                /\ promises.ret.st = "fulfilled"
                /\ ReturnsLike(c, [cls |-> "Pass", val |-> r])

\* The operations that are combinators of a Result instance.
Combinators ==
    {"map", "mapErr", "andThen", "orElse", "nullify", "inspect", "inspectPass",
     "inspectFail", "match", "chain"}

IsMisuseError(v) ==
    IsErrorNamed(v, "UnwrappedFailError") \/ IsErrorNamed(v, "ExpectFailError")

\* C6: Fail(e).unwrap() always raises an UnwrappedFailError whose message
\* renders e, Pass(v).expectFail() always raises an ExpectFailError whose
\* message renders v, Pass(v).unwrap() returns v, Fail(e).expectFail() returns
\* e, and no combinator called with callbacks that do not raise raises a
\* misuse error.
C6_MisuseErrors ==
    /\ last.op = "unwrap" =>
          LET o == born[last.recv]
          IN  IF o.cls = "Pass" THEN last.c = Ret(o.val)
              ELSE /\ last.c.k = "raise"
                   /\ IsErrorNamed(last.c.v, "UnwrappedFailError")
                   /\ MessageRenders(last.c.v, o.val)
    /\ last.op = "expectFail" =>
          LET o == born[last.recv]
          IN  IF o.cls = "Fail" THEN last.c = Ret(o.val)
              ELSE /\ last.c.k = "raise"
                   /\ IsErrorNamed(last.c.v, "ExpectFailError")
                   /\ MessageRenders(last.c.v, o.val)
    /\ (last.op \in Combinators /\ last.f # "boom" /\ last.g # "boom") =>
          /\ last.c.k = "raise" => ~IsMisuseError(last.c.v)
          /\ (last.op = "chain" /\ last.c2.k = "raise") => ~IsMisuseError(last.c2.v)

\* What a (value) => value callback returns for v, when it returns.
Applied(fn, v) == IF fn = "id" THEN v ELSE Str("k")

\* The only call in the log is cb(arg).
CalledOnce(calls, cb, arg) ==
    Len(calls) = 1 /\ calls[1].cb = cb /\ calls[1].arg = arg

\* The operation `op` transforms the side `own` only: on a receiver of that
\* variant it calls f once with the payload and returns that variant around
\* what f returned (or raises what f raised); on the other variant it does
\* not call f and returns the receiver's variant and payload.
OwnSideOnly(op, own) ==
    last.op = op =>
        LET o == born[last.recv]
        IN  IF o.cls = own
            THEN /\ CalledOnce(last.calls, "f", o.val)
                 /\ IF last.f = "boom" THEN last.c = Raise(UserErr)
                    ELSE ReturnsLike(last.c, [cls |-> own, val |-> Applied(last.f, o.val)])
            ELSE last.calls = <<>> /\ ReturnsLike(last.c, o)

\* C7: Pass(v).map(f) = Pass(f(v)) and Fail(e).map(f) = Fail(e) with f not
\* invoked; Fail(e).mapErr(g) = Fail(g(e)) and Pass(v).mapErr(g) = Pass(v)
\* with g not invoked; mapping either side with the identity returns a Result
\* with the variant and the payload of the receiver.
C7_MapOwnSide ==
    /\ OwnSideOnly("map", "Pass")
    /\ OwnSideOnly("mapErr", "Fail")
    /\ (last.op \in {"map", "mapErr"} /\ last.f = "id")
            => ReturnsLike(last.c, born[last.recv])

\* C7's case: map replaced the payload of a Pass by what f returned.
C7_Witness ==
    /\ last.op = "map"
    /\ last.f = "konst"
    /\ born[last.recv] = [cls |-> "Pass", val |-> Num(0)]
    /\ CalledOnce(last.calls, "f", Num(0))
    /\ ReturnsLike(last.c, [cls |-> "Pass", val |-> Str("k")])

\* Two completions agree: both raise the same value, or both return a Result
\* of the same variant and payload.
SameOutcome(c, d) ==
    IF c.k = "raise" \/ d.k = "raise" THEN c = d
    ELSE ReturnsLike(c, heap[d.v.i])

\* C8: a.andThen(f).andThen(g) and a.andThen(x => f(x).andThen(g)) end alike
\* and invoke f and g equally often: f at most once, g only when a is a Pass
\* and f returned a Pass.
C8_AndThenAssociative ==
    last.op = "chain" =>
        /\ SameOutcome(last.c, last.c2)
        /\ Count(last.calls, "f") = Count(last.calls2, "f")
        /\ Count(last.calls, "g") = Count(last.calls2, "g")
        /\ Count(last.calls, "f") = IF born[last.recv].cls = "Pass" THEN 1 ELSE 0
        /\ Count(last.calls, "g") =
              IF born[last.recv].cls = "Pass" /\ last.f = "pass" THEN 1 ELSE 0

\* C8's case: both steps ran, in both forms, and the chain ended in g's Fail.
C8_Witness ==
    /\ last.op = "chain"
    /\ born[last.recv].cls = "Pass"
    /\ last.f = "pass" /\ last.g = "failK"
    /\ Count(last.calls, "g") = 1 /\ Count(last.calls2, "g") = 1
    /\ ReturnsLike(last.c, [cls |-> "Fail", val |-> Str("k")])
    /\ ReturnsLike(last.c2, [cls |-> "Fail", val |-> Str("k")])

\* C9: match(onPass, onFail) invokes exactly one branch, once, with the
\* receiver's payload: onPass on a Pass, onFail on a Fail; it never invokes
\* the other one, and it ends as that branch ends.
C9_MatchOneBranch ==
    last.op = "match" =>
        LET o == born[last.recv]
            branch == IF o.cls = "Pass" THEN "onPass" ELSE "onFail"
            fn == IF o.cls = "Pass" THEN last.f ELSE last.g
        IN  /\ CalledOnce(last.calls, branch, o.val)
            /\ last.c = IF fn = "boom" THEN Raise(UserErr)
                        ELSE Ret(Applied(fn, o.val))

\* C9's case: a Fail matched with two different branches ended as onFail did.
C9_Witness ==
    /\ last.op = "match"
    /\ born[last.recv].cls = "Fail"
    /\ last.f = "konst" /\ last.g = "id"
    /\ last.c = Ret(born[last.recv].val)
    /\ born[last.recv].val # Str("k")

\* C10: inspect(f) calls f once with a Result of the receiver's variant and
\* payload; inspectPass(f) calls f once with the payload of a Pass and not at
\* all on a Fail, inspectFail(f) the other way round; for every callback,
\* what each returns has the variant and the payload of the receiver, and the
\* receiver is not changed.
C10_InspectOnlyObserves ==
    last.op \in {"inspect", "inspectPass", "inspectFail"} =>
        LET o == born[last.recv]
            own == IF last.op = "inspectPass" THEN "Pass" ELSE "Fail"
        IN  /\ last.op = "inspect" =>
                  /\ Len(last.calls) = 1
                  /\ last.calls[1].cb = "f"
                  /\ last.calls[1].arg.t = "ref"
                  /\ last.calls[1].obj = o
            /\ (last.op # "inspect" /\ o.cls = own) => CalledOnce(last.calls, "f", o.val)
            /\ (last.op # "inspect" /\ o.cls # own) => last.calls = <<>>
            /\ last.c.k = "ret" => ReturnsLike(last.c, o)
            /\ last.c.k = "raise" => last.f = "boom"
            /\ heap[last.recv] = o

\* The returned promise is fulfilled with a Result instance.
SettledWithOutcome ==
    /\ promises.ret.st = "fulfilled"
    /\ promises.ret.v.t = "ref"
    /\ promises.ret.v.i \in DOMAIN heap
    /\ heap[promises.ret.v.i].cls \in {"Pass", "Fail"}

\* Each call of resultifyPromise invokes asyncFn once.
InvokedOnce == asyncFn.k # "none" => invocations = 1

\* The returned promise is pending as long as the asynchronous operation is,
\* and for ever when that operation never settles.
NotBeforeUnderlying ==
    /\ promises.p0.st = "pending" => promises.ret.st = "pending"
    /\ asyncFn.k = "hang" => promises.ret.st = "pending"

\* Within one call, a returned promise that has settled stays as it settled.
SettlesOnce ==
    [][(Settled(promises.ret) /\ asyncFn'.call = asyncFn.call)
            => promises'.ret = promises.ret]_vars

\* Once the asynchronous operation has settled, the returned promise settles.
EventuallySettles == Settled(promises.p0) ~> Settled(promises.ret)

\* C11: resultifyPromise invokes asyncFn once per call; the promise it returns
\* never settles before the asynchronous operation has settled (never, if
\* that never settles); and once the operation has settled, resolved or
\* rejected, the returned promise settles, once, with an Outcome.
C11_AwaitsOneOperation ==
    /\ [](InvokedOnce /\ NotBeforeUnderlying)
    /\ SettlesOnce
    /\ EventuallySettles
    /\ []((Settled(promises.p0) /\ Settled(promises.ret)) => SettledWithOutcome)

====
